---- MODULE Spec2Model ----
(***************************************************************************)
(* Model of the dscore diarization scorer (tools/dscore): the frame        *)
(* labeller and multi-recording aligner of scorelib/score.py, the          *)
(* contingency-based metrics of scorelib/metrics.py, the call of the       *)
(* external DER scorer, the single-recording path of confusion_matrix.py   *)
(* and the batch scorer and dataframe writer of score_batch.py.            *)
(*                                                                         *)
(* Times (onsets, offsets, durations, the frame step) are whole numbers of *)
(* an arbitrary time unit.  A speaker id or recording id is a natural      *)
(* number that stands for the id's rank in string order, which is all that *)
(* np.unique and sorted() use of it.                                       *)
(***************************************************************************)
EXTENDS Integers, Sequences, FiniteSets, TLC

VARIABLES
    pc,         \* position of the running call
    turns,      \* turns_to_frames: the list of Turn
    dur,        \* turns_to_frames: the duration argument (None or a time)
    step,       \* frame step
    X,          \* turns_to_frames: X[i] = the columns that are True in row i-1
    labels,     \* turns_to_frames: the returned frame labels
    ref_labels, \* the reference frame labels (concatenated over recordings)
    sys_labels, \* the system frame labels (concatenated over recordings)
    cm,         \* contingency_matrix: [cmatrix, ref_classes, sys_classes]
    bcubed,     \* bcubed: <<precision, recall, f1>>
    tau,        \* goodman_kruskal_tau: <<tau_ref_sys, tau_sys_ref>>
    ce,         \* conditional_entropy: H(ref | sys)
    mi,         \* mutual_information: <<mi, nmi>>
    ref_rec_id_to_turns,    \* rttm_to_turns(ref_rttm_fn)
    sys_rec_id_to_turns,    \* rttm_to_turns(sys_rttm_fn)
    rec_ids,    \* rttms_to_frames: the recording ids still to be labelled
    ref_parts,  \* rttms_to_frames: the list ref_labels before np.concatenate
    sys_parts,  \* rttms_to_frames: the list sys_labels before np.concatenate
    max_ref_label,
    max_sys_label,
    collar,             \* score: the collar argument
    ignore_overlaps,    \* score: the ignore_overlaps argument
    der_cmd,    \* metrics.der: the command line given to md-eval
    md_eval,    \* the run of md-eval: its exit status and output
    der,        \* metrics.der: the returned DER
    result,     \* score: the returned tuple
    ref_key,    \* confusion_matrix: the key of list(ref....values())[0]
    sys_key,    \* confusion_matrix: the key of list(sys....values())[0]
    fids,       \* score_recordings: the list of file ids
    ref_rttm_dir,   \* the file ids whose reference RTTM exists
    sys_rttm_dir,   \* the file ids whose system RTTM exists
    score_raises,   \* the file ids whose pair of RTTMs makes score raise
    n_jobs,     \* score_recordings: the number of workers
    running,    \* the positions of fids that a worker is scoring
    results,    \* what _score_recordings gave for each position of fids
    completed,  \* the positions of fids in the order their scoring ended
    batch_rows, \* score_recordings: the returned rows
    additional_columns, \* write_dataframe: list of <<col_name, val>>
    dataframe   \* write_dataframe: the lines written, each a list of fields

framesVars == <<turns, dur, X, labels>>
labelVars == <<ref_labels, sys_labels>>
metricVars == <<cm, bcubed, tau, ce, mi>>
alignVars == <<ref_rec_id_to_turns, sys_rec_id_to_turns, rec_ids,
               ref_parts, sys_parts, max_ref_label, max_sys_label>>
scoreVars == <<collar, ignore_overlaps, der_cmd, md_eval, der, result>>
singleVars == <<ref_key, sys_key>>
batchVars == <<fids, ref_rttm_dir, sys_rttm_dir, score_raises, n_jobs,
               running, results, completed, batch_rows, additional_columns,
               dataframe>>

vars == <<pc, step, framesVars, labelVars, metricVars, alignVars, scoreVars,
          singleVars, batchVars>>

\* dur=None is the empty sequence, dur=d the one-element sequence <<d>>.
None == <<>>

----------------------------------------------------------------------------
(* Bounds of the model *)

MaxTime == 3
MaxTurns == 2

Speakers == {1, 2}
Steps == {1, 2}
Times == 0 .. MaxTime

----------------------------------------------------------------------------
(* Arithmetic and sequence helpers *)

RECURSIVE Pow2(_)
Pow2(n) == IF n = 0 THEN 1 ELSE 2 * Pow2(n - 1)

RECURSIVE SumSeq(_)
SumSeq(s) == IF s = <<>> THEN 0 ELSE Head(s) + SumSeq(Tail(s))

RECURSIVE MaxSeq(_)
MaxSeq(s) == IF Len(s) = 1 THEN s[1]
             ELSE LET m == MaxSeq(Tail(s)) IN IF s[1] >= m THEN s[1] ELSE m

Min(a, b) == IF a <= b THEN a ELSE b

Range(s) == {s[i] : i \in DOMAIN s}

RECURSIVE SortedSeq(_)
SortedSeq(S) == IF S = {} THEN <<>>
                ELSE LET m == CHOOSE x \in S : \A y \in S : x <= y
                     IN <<m>> \o SortedSeq(S \ {m})

StrictlyIncreasing(seq) ==
    \A i, j \in DOMAIN seq : i < j => seq[i] < seq[j]

IndexOf(s, v) == CHOOSE i \in DOMAIN s : s[i] = v

SeqsUpTo(S, n) == UNION {[1 .. k -> S] : k \in 0 .. n}

----------------------------------------------------------------------------
(* scorelib/score.py: Turn and turns_to_frames *)

Turn(speaker_id, onset, offset) ==
    [speaker_id |-> speaker_id, onset |-> onset, offset |-> offset]

\* np.unique(a): the sorted distinct values of a.
NpUnique(a) == SortedSeq(Range(a))

\* np.unique(a, return_inverse=True)[1]: for each element its index (from 0)
\* in the sorted distinct values.
NpUniqueInverse(a) == [i \in DOMAIN a |-> IndexOf(NpUnique(a), a[i]) - 1]

\* if dur is None: dur = max(offsets)
Duration(ts, d) ==
    IF d = None THEN MaxSeq([i \in DOMAIN ts |-> ts[i].offset]) ELSE d[1]

\* A plausible slip: a last, partial frame is counted.
NFramesCeil(d, st) == (d + st - 1) \div st

\* n_frames = int(dur/step)
NFrames(d, st) == d \div st

\* A plausible slip: side='right', the number of frame times <= v.
SearchSortedRight(n_frames, st, v) ==
    Cardinality({i \in 0..(n_frames - 1) : st * i <= v})

\* np.searchsorted(step*np.arange(n_frames), v): the number of frame
\* boundary times that lie strictly before v (side='left').
SearchSorted(n_frames, st, v) ==
    Cardinality({i \in 0 .. n_frames - 1 : st * i < v})

\* A plausible slip: the slice takes the end index in, X[bi:ei + 1].
ActivityMatrixClosed(ts, d, st) ==
    LET speaker_ids == [i \in DOMAIN ts |-> ts[i].speaker_id]
        speaker_class_inds == NpUniqueInverse(speaker_ids)
        n_classes == Len(NpUnique(speaker_ids)) + 1
        n_frames == d \div st
        bis == [i \in DOMAIN ts |->
                   Cardinality({k \in 0..(n_frames - 1) : st * k < ts[i].onset})]
        eis == [i \in DOMAIN ts |->
                   Cardinality({k \in 0..(n_frames - 1) : st * k < ts[i].offset})]
        marked == [f \in 1..n_frames |->
                     {speaker_class_inds[i] : i \in
                        {j \in DOMAIN ts : bis[j] <= f - 1 /\ f - 1 <= eis[j]}}]
    IN [f \in 1..n_frames |->
          IF marked[f] = {} THEN {n_classes - 1} ELSE marked[f]]

\* The matrix X after the loop over the turns and the non-speech fill.
\* Row i (1-based here, frame i-1) is the set of the columns set to True;
\* column c < n_classes - 1 is the c-th speaker, the last is non-speech.
ActivityMatrix(ts, d, st) ==
    LET speaker_ids == [i \in DOMAIN ts |-> ts[i].speaker_id]
        speaker_class_inds == NpUniqueInverse(speaker_ids)
        n_classes == Len(NpUnique(speaker_ids)) + 1
        n_frames == NFrames(d, st)
        bis == [i \in DOMAIN ts |-> SearchSorted(n_frames, st, ts[i].onset)]
        eis == [i \in DOMAIN ts |-> SearchSorted(n_frames, st, ts[i].offset)]
        marked == [f \in 1 .. n_frames |->
                     {speaker_class_inds[i] : i \in
                        {j \in DOMAIN ts : bis[j] <= f - 1 /\ f - 1 < eis[j]}}]
    IN [f \in 1 .. n_frames |->
          IF marked[f] = {} THEN {n_classes - 1} ELSE marked[f]]

\* A plausible slip: position weights 1, 2, 3, ... instead of powers of two.
PowsLinear(c) == c + 1

\* pows = 2**np.arange(X.shape[1])
Pows(c) == Pow2(c)

\* labels = np.sum(pows*X, axis=1)
RowLabel(row) == SumSeq([i \in 1 .. Cardinality(row) |-> Pows(SortedSeq(row)[i])])

FrameLabels(x) == [f \in DOMAIN x |-> RowLabel(x[f])]

----------------------------------------------------------------------------
(* Numbers.  A float is modelled by the rational it stands for: <<n, d>>   *)
(* with d > 0 in lowest terms; d = 0 marks a non-finite float (<<0, 0>> is *)
(* nan, <<1, 0>> is inf, <<-1, 0>> is -inf).                               *)

Abs(n) == IF n < 0 THEN -n ELSE n

Sgn(n) == IF n < 0 THEN -1 ELSE IF n = 0 THEN 0 ELSE 1

RECURSIVE GCD(_, _)
GCD(a, b) == IF b = 0 THEN a ELSE GCD(b, a % b)

Norm(n, d) ==
    IF d = 0 THEN <<Sgn(n), 0>>
    ELSE LET g == GCD(Abs(n), Abs(d))
         IN <<(Sgn(d) * n) \div g, Abs(d) \div g>>

Whole(n) == <<n, 1>>
NaN == <<0, 0>>

\* The operations reduce before they multiply, so that no intermediate
\* value is larger than the result needs.
LCM(a, b) == IF a = 0 \/ b = 0 THEN 0 ELSE (a \div GCD(a, b)) * b

RAdd(a, b) ==
    LET d == LCM(a[2], b[2])
    IN IF d = 0 THEN Norm(a[1] * b[2] + b[1] * a[2], 0)
       ELSE Norm(a[1] * (d \div a[2]) + b[1] * (d \div b[2]), d)

RSub(a, b) == RAdd(a, <<-b[1], b[2]>>)

RMul(a, b) ==
    LET g == GCD(Abs(a[1]), b[2])
        h == GCD(Abs(b[1]), a[2])
    IN IF g = 0 \/ h = 0 THEN Norm(a[1] * b[1], a[2] * b[2])
       ELSE Norm((a[1] \div g) * (b[1] \div h), (a[2] \div h) * (b[2] \div g))

RDiv(a, b) == RMul(a, <<Sgn(b[1]) * b[2], Abs(b[1])>>)

\* Comparisons; any comparison with nan is false.
RLe(a, b) == a # NaN /\ b # NaN /\ a[1] * b[2] <= b[1] * a[2]
RLt(a, b) == a # NaN /\ b # NaN /\ a[1] * b[2] < b[1] * a[2]

RECURSIVE RSum(_)
RSum(s) == IF s = <<>> THEN Whole(0) ELSE RAdd(Head(s), RSum(Tail(s)))

\* EPS = np.finfo(float).eps is modelled as a positive infinitesimal: a value
\* that had EPS added is std + eps*EPS, and the result of a division is given
\* by its standard part, which is the float result up to rounding.
PlusEPS(x) == [std |-> x, eps |-> 1]

EpsSub(a, x) == [std |-> RSub(a.std, x), eps |-> a.eps]

EpsDiv(a, b) ==
    IF b.std # Whole(0) THEN RDiv(a.std, b.std)
    ELSE IF a.std # Whole(0) THEN RDiv(a.std, Whole(0))
    ELSE Norm(a.eps, b.eps)

\* Largest r with r*r <= n, by bisection on lo <= r < hi.
RECURSIVE ISqrtIn(_, _, _)
ISqrtIn(n, lo, hi) ==
    IF hi - lo <= 1 THEN lo
    ELSE LET mid == (lo + hi) \div 2
         IN IF mid * mid <= n THEN ISqrtIn(n, mid, hi) ELSE ISqrtIn(n, lo, mid)

ISqrt(n) == ISqrtIn(n, 0, Min(n, 46339) + 1)

\* np.log2 of a positive whole number, in fixed point: the value times
\* LogPrime(2), rounded to a whole number for each prime and summed over the
\* prime factors, so that Log2(a*b) = Log2(a) + Log2(b) holds as it does for
\* the real logarithm.
LogPrime(p) ==
    CASE p = 2 -> 1000 [] p = 3 -> 1585 [] p = 5 -> 2322 [] p = 7 -> 2807
      [] p = 11 -> 3459 [] p = 13 -> 3700

LogScale == LogPrime(2)

RECURSIVE Log2(_)
Log2(n) ==
    IF n = 1 THEN 0
    ELSE LET p == CHOOSE q \in 2 .. n :
                     n % q = 0 /\ \A r \in 2 .. q - 1 : n % r # 0
         IN LogPrime(p) + Log2(n \div p)

----------------------------------------------------------------------------
(* scorelib/metrics.py *)

\* A plausible slip: a cell records that the pair occurs, without summing the
\* duplicate entries.
ContingencyNoSum(ref, sys) ==
    LET ref_classes == NpUnique(ref)
        sys_classes == NpUnique(sys)
        ref_class_inds == NpUniqueInverse(ref)
        sys_class_inds == NpUniqueInverse(sys)
    IN [cmatrix |->
          [i \in 1 .. Len(ref_classes) |-> [j \in 1 .. Len(sys_classes) |->
              IF \E f \in DOMAIN ref : ref_class_inds[f] = i - 1
                                       /\ sys_class_inds[f] = j - 1
              THEN 1 ELSE 0]],
        ref_classes |-> ref_classes,
        sys_classes |-> sys_classes]

\* contingency_matrix(ref_labels, sys_labels): coo_matrix sums the entries
\* (1 per frame) that fall on the same (ref_class_ind, sys_class_ind).
ContingencyMatrix(ref, sys) ==
    LET ref_classes == NpUnique(ref)
        sys_classes == NpUnique(sys)
        ref_class_inds == NpUniqueInverse(ref)
        sys_class_inds == NpUniqueInverse(sys)
    IN [cmatrix |->
          [i \in 1 .. Len(ref_classes) |-> [j \in 1 .. Len(sys_classes) |->
              Cardinality({f \in DOMAIN ref :
                              ref_class_inds[f] = i - 1
                              /\ sys_class_inds[f] = j - 1})]],
        ref_classes |-> ref_classes,
        sys_classes |-> sys_classes]

NRows(m) == Len(m)
NCols(m) == IF m = <<>> THEN 0 ELSE Len(m[1])

\* The cells (i, j) of an R x C matrix in row-major order.
Cells(m) == [k \in 1 .. NRows(m) * NCols(m) |->
               <<((k - 1) \div NCols(m)) + 1, ((k - 1) % NCols(m)) + 1>>]

\* cm.sum(axis=1), cm.sum(axis=0), cm.sum()
RowSums(m) == [i \in 1 .. NRows(m) |-> SumSeq(m[i])]
ColSums(m) == [j \in 1 .. NCols(m) |->
                 SumSeq([i \in 1 .. NRows(m) |-> m[i][j]])]
Total(m) == SumSeq(RowSums(m))

\* A plausible slip: the counts are not normalised by the number of frames.
BcubedPrecisionUnnormalised(m) ==
    LET cols == ColSums(m)
        cells == Cells(m)
    IN RSum([k \in DOMAIN cells |->
               LET v == m[cells[k][1]][cells[k][2]]
               IN RMul(Whole(v), Norm(v, cols[cells[k][2]]))])

\* bcubed: np.sum(cm_norm * (cm / cm.sum(axis=0)))
BcubedPrecision(m) ==
    LET N == Total(m)
        cols == ColSums(m)
        cells == Cells(m)
    IN RSum([k \in DOMAIN cells |->
               LET v == m[cells[k][1]][cells[k][2]]
               IN RMul(Norm(v, N), Norm(v, cols[cells[k][2]]))])

\* bcubed: np.sum(cm_norm * (cm / np.expand_dims(cm.sum(axis=1), 1)))
BcubedRecall(m) ==
    LET N == Total(m)
        rows == RowSums(m)
        cells == Cells(m)
    IN RSum([k \in DOMAIN cells |->
               LET v == m[cells[k][1]][cells[k][2]]
               IN RMul(Norm(v, N), Norm(v, rows[cells[k][1]]))])

\* A plausible slip: the factor 2 of the harmonic mean is left out.
BcubedF1NoFactor(precision, recall) ==
    RDiv(RMul(precision, recall), RAdd(precision, recall))

\* bcubed: f1 = 2*(precision*recall)/(precision + recall)
BcubedF1(precision, recall) ==
    RDiv(RMul(Whole(2), RMul(precision, recall)), RAdd(precision, recall))

Bcubed(m) ==
    LET precision == BcubedPrecision(m)
        recall == BcubedRecall(m)
    IN <<precision, recall, BcubedF1(precision, recall)>>

Sq(x) == RMul(x, x)

\* goodman_kruskal_tau:
\*   cm = cm / cm.sum()
\*   ref_marginals = cm.sum(axis=1); sys_marginals = cm.sum(axis=0)
\*   vy = 1 - np.sum(sys_marginals**2) + EPS
\*   xy_term = np.sum(cm**2, axis=1)
\*   vy_bar_x = 1 - np.sum(xy_term / ref_marginals)
\*   tau_ref_sys = (vy - vy_bar_x) / vy
TauRefSys(m) ==
    LET N == Total(m)
        p == [i \in 1 .. NRows(m) |-> [j \in 1 .. NCols(m) |-> Norm(m[i][j], N)]]
        ref_marginals == [i \in 1 .. NRows(m) |-> RSum(p[i])]
        sys_marginals == [j \in 1 .. NCols(m) |->
                            RSum([i \in 1 .. NRows(m) |-> p[i][j]])]
        vy == PlusEPS(RSub(Whole(1),
                  RSum([j \in 1 .. NCols(m) |-> Sq(sys_marginals[j])])))
        xy_term == [i \in 1 .. NRows(m) |->
                      RSum([j \in 1 .. NCols(m) |-> Sq(p[i][j])])]
        vy_bar_x == RSub(Whole(1),
                      RSum([i \in 1 .. NRows(m) |->
                              RDiv(xy_term[i], ref_marginals[i])]))
    IN EpsDiv(EpsSub(vy, vy_bar_x), vy)

\* goodman_kruskal_tau, the other direction:
\*   vx = 1 - np.sum(ref_marginals**2) + EPS
\*   yx_term = np.sum(cm**2, axis=0)
\*   vx_bar_y = 1 - np.sum(yx_term / sys_marginals)
\*   tau_sys_ref = (vx - vx_bar_y) / vx
TauSysRef(m) ==
    LET N == Total(m)
        p == [i \in 1 .. NRows(m) |-> [j \in 1 .. NCols(m) |-> Norm(m[i][j], N)]]
        ref_marginals == [i \in 1 .. NRows(m) |-> RSum(p[i])]
        sys_marginals == [j \in 1 .. NCols(m) |->
                            RSum([i \in 1 .. NRows(m) |-> p[i][j]])]
        vx == PlusEPS(RSub(Whole(1),
                  RSum([i \in 1 .. NRows(m) |-> Sq(ref_marginals[i])])))
        yx_term == [j \in 1 .. NCols(m) |->
                      RSum([i \in 1 .. NRows(m) |-> Sq(p[i][j])])]
        vx_bar_y == RSub(Whole(1),
                      RSum([j \in 1 .. NCols(m) |->
                              RDiv(yx_term[j], sys_marginals[j])]))
    IN EpsDiv(EpsSub(vx, vx_bar_y), vx)

GoodmanKruskalTau(m) == <<TauRefSys(m), TauSysRef(m)>>

\* ref_inds, sys_inds = np.nonzero(cm): the non-zero cells, row-major.
NonZero(m) == SelectSeq(Cells(m), LAMBDA c : m[c[1]][c[2]] # 0)

\* conditional_entropy (nats=False): the sum of
\* sigma = vals/N * (log(sys_marginals) - log(vals) + log(N) - log(n_sys)),
\* with the logarithms in fixed point.
ConditionalEntropy(m) ==
    LET N == Total(m)
        cols == ColSums(m)
        n_sys == SumSeq(cols)
        nz == NonZero(m)
        sigma == [k \in DOMAIN nz |->
                    LET vals == m[nz[k][1]][nz[k][2]]
                    IN vals * (Log2(cols[nz[k][2]]) - Log2(vals)
                               + Log2(N) - Log2(n_sys))]
    IN Norm(SumSeq(sigma), N * LogScale)

\* mutual_information (nats=False): the sum of
\* sigma = (vals/N) * (log(vals) - log(outer) + log(N)), as a whole number
\* of 1/(N * LogScale).
MutualInformationScaled(m) ==
    LET N == Total(m)
        rows == RowSums(m)
        cols == ColSums(m)
        nz == NonZero(m)
        sigma == [k \in DOMAIN nz |->
                    LET vals == m[nz[k][1]][nz[k][2]]
                        outer == rows[nz[k][1]] * cols[nz[k][2]]
                    IN vals * (Log2(vals) - Log2(outer) + Log2(N))]
    IN SumSeq(sigma)

\* mutual_information: h(p) = -np.sum(p*log(p)) over p > 0 for the marginal
\* p = counts / N, as a whole number of 1/(N * LogScale).
EntropyScaled(counts, N) ==
    LET pos == SelectSeq(counts, LAMBDA c : c > 0)
    IN -SumSeq([k \in DOMAIN pos |-> pos[k] * (Log2(pos[k]) - Log2(N))])

\* mutual_information: mi and
\* nmi = mi / np.sqrt(h(ref_marginals) * h(sys_marginals) + EPS).
\* With all three numbers over the denominator N * LogScale the quotient is
\* MutualInformationScaled / sqrt(EntropyScaled * EntropyScaled); when the
\* product of the entropies is 0 the divisor is sqrt(EPS).
MutualInformation(m) ==
    LET N == Total(m)
        mi_n == MutualInformationScaled(m)
        h_ref == EntropyScaled(RowSums(m), N)
        h_sys == EntropyScaled(ColSums(m), N)
        nmi == IF h_ref * h_sys # 0 THEN Norm(mi_n, ISqrt(h_ref * h_sys))
               ELSE IF mi_n = 0 THEN Whole(0)
               ELSE RDiv(Whole(mi_n), Whole(0))
    IN <<Norm(mi_n, N * LogScale), nmi>>

----------------------------------------------------------------------------
(* A call of turns_to_frames(turns, dur, step) *)

AllTurns == {Turn(s, on, off) : s \in Speakers, on \in Times, off \in Times}

\* Values of the variables of the calls that have not run.
NoFrames == turns = <<>> /\ dur = None /\ X = <<>> /\ labels = <<>>
NoLabels == ref_labels = <<>> /\ sys_labels = <<>>
NoMetrics == cm = <<>> /\ bcubed = <<>> /\ tau = <<>> /\ ce = <<>> /\ mi = <<>>
NoAlign ==
    /\ ref_rec_id_to_turns = <<>> /\ sys_rec_id_to_turns = <<>>
    /\ rec_ids = <<>> /\ ref_parts = <<>> /\ sys_parts = <<>>
    /\ max_ref_label = 0 /\ max_sys_label = 0
NoScore ==
    /\ collar = None /\ ignore_overlaps = None /\ der_cmd = <<>>
    /\ md_eval = None /\ der = None /\ result = <<>>
NoSingle == ref_key = None /\ sys_key = None
NoBatch ==
    /\ fids = <<>> /\ ref_rttm_dir = {} /\ sys_rttm_dir = {}
    /\ score_raises = {} /\ n_jobs = 1 /\ running = {}
    /\ results = <<>> /\ completed = <<>> /\ batch_rows = <<>>
    /\ additional_columns = <<>> /\ dataframe = <<>>

InitFrames ==
    /\ pc = "turns_to_frames"
    /\ turns \in SeqsUpTo(AllTurns, MaxTurns)
    /\ dur \in {None} \cup {<<t>> : t \in Times}
    /\ step \in Steps
    /\ X = <<>>
    /\ labels = <<>>
    /\ NoLabels /\ NoMetrics /\ NoAlign /\ NoScore
    /\ NoSingle /\ NoBatch

\* dur is None and there is no turn: max(offsets) raises ValueError.
TurnsToFramesRaise ==
    /\ pc = "turns_to_frames"
    /\ dur = None /\ turns = <<>>
    /\ pc' = "raised"
    /\ UNCHANGED <<singleVars, batchVars,
                   step, framesVars, labelVars, metricVars, alignVars, scoreVars>>

TurnsToFrames ==
    /\ pc = "turns_to_frames"
    /\ ~(dur = None /\ turns = <<>>)
    /\ X' = ActivityMatrix(turns, Duration(turns, dur), step)
    /\ labels' = FrameLabels(ActivityMatrix(turns, Duration(turns, dur), step))
    /\ pc' = "returned"
    /\ UNCHANGED <<singleVars, batchVars,
                   turns, dur, step, labelVars, metricVars, alignVars, scoreVars>>

NextFrames == TurnsToFrames \/ TurnsToFramesRaise

SpecFrames == InitFrames /\ [][NextFrames]_vars

----------------------------------------------------------------------------
(* Properties of turns_to_frames *)

SpeakerSet(ts) == {ts[i].speaker_id : i \in DOMAIN ts}

\* The speakers of the turns that cover the start time of frame f (1-based).
ActiveSpeakers(ts, st, f) ==
    {ts[i].speaker_id : i \in
        {j \in DOMAIN ts : ts[j].onset <= st * (f - 1) /\ st * (f - 1) < ts[j].offset}}

\* The label that encodes a non-empty speaker set: speaker of rank r among
\* the recording's speakers carries bit r.
SpeakerBit(ts, s) == Pow2(IndexOf(SortedSeq(SpeakerSet(ts)), s) - 1)

NonSpeechLabel(ts) == Pow2(Cardinality(SpeakerSet(ts)))

\* C1: turns_to_frames gives each frame exactly one integer label that
\* uniquely encodes the set of speakers active in the frame: two frames have
\* the same label iff they have the same set of active speakers, a frame has
\* the reserved non-speech label iff no speaker is active in it, and a frame
\* with two active speakers A and B has a label different from the A-only,
\* the B-only and the non-speech label.
C1_LabelsEncodeSpeakerSets ==
    pc = "returned" =>
        /\ DOMAIN labels = 1 .. NFrames(Duration(turns, dur), step)
        /\ \A f \in DOMAIN labels : labels[f] \in Nat
        /\ \A f, g \in DOMAIN labels :
              (labels[f] = labels[g]) <=>
              (ActiveSpeakers(turns, step, f) = ActiveSpeakers(turns, step, g))
        /\ \A f \in DOMAIN labels :
              (labels[f] = NonSpeechLabel(turns)) <=>
              (ActiveSpeakers(turns, step, f) = {})
        /\ \A f \in DOMAIN labels :
              \A a, b \in ActiveSpeakers(turns, step, f) :
                 a # b => labels[f] \notin {SpeakerBit(turns, a),
                                            SpeakerBit(turns, b),
                                            NonSpeechLabel(turns)}

\* A labelling with an overlap frame, a single-speaker frame and a
\* non-speech frame.
C1_Witness ==
    /\ pc = "returned"
    /\ \E f, g, h \in DOMAIN labels :
          /\ Cardinality(ActiveSpeakers(turns, step, f)) = 2
          /\ Cardinality(ActiveSpeakers(turns, step, g)) = 1
          /\ ActiveSpeakers(turns, step, h) = {}

----------------------------------------------------------------------------
(* The metric calls of score (score.py lines 257-263), also the calls of   *)
(* the metric functions on a pair of label sequences.                      *)

MaxFrames == 4

Labels == {1, 2, 3}

LabelSeqs(n) == [1 .. n -> Labels]

InitMetrics ==
    /\ pc = "contingency_matrix"
    /\ \E n \in 1 .. MaxFrames :
          ref_labels \in LabelSeqs(n) /\ sys_labels \in LabelSeqs(n)
    /\ step \in {1}
    /\ NoFrames /\ NoMetrics /\ NoAlign /\ NoScore
    /\ NoSingle /\ NoBatch

\* cm, _, _ = metrics.contingency_matrix(ref_labels, sys_labels)
CallContingencyMatrix ==
    /\ pc = "contingency_matrix"
    /\ cm' = ContingencyMatrix(ref_labels, sys_labels)
    /\ pc' = "bcubed"
    /\ UNCHANGED <<singleVars, batchVars,
                   step, framesVars, labelVars, bcubed, tau, ce, mi,
                   alignVars, scoreVars>>

\* bcubed_precision, bcubed_recall, bcubed_f1 = metrics.bcubed(None, None, cm)
CallBcubed ==
    /\ pc = "bcubed"
    /\ bcubed' = Bcubed(cm.cmatrix)
    /\ pc' = "goodman_kruskal_tau"
    /\ UNCHANGED <<singleVars, batchVars,
                   step, framesVars, labelVars, cm, tau, ce, mi,
                   alignVars, scoreVars>>

\* tau_ref_sys, tau_sys_ref = metrics.goodman_kruskal_tau(None, None, cm)
CallGoodmanKruskalTau ==
    /\ pc = "goodman_kruskal_tau"
    /\ tau' = GoodmanKruskalTau(cm.cmatrix)
    /\ pc' = "conditional_entropy"
    /\ UNCHANGED <<singleVars, batchVars,
                   step, framesVars, labelVars, cm, bcubed, ce, mi,
                   alignVars, scoreVars>>

\* ce = metrics.conditional_entropy(None, None, cm, nats)
CallConditionalEntropy ==
    /\ pc = "conditional_entropy"
    /\ ce' = ConditionalEntropy(cm.cmatrix)
    /\ pc' = "mutual_information"
    /\ UNCHANGED <<singleVars, batchVars,
                   step, framesVars, labelVars, cm, bcubed, tau, mi,
                   alignVars, scoreVars>>

\* mi, nmi = metrics.mutual_information(None, None, cm, nats)
CallMutualInformation ==
    /\ pc = "mutual_information"
    /\ mi' = MutualInformation(cm.cmatrix)
    /\ pc' = "score_return"
    /\ UNCHANGED <<singleVars, batchVars,
                   step, framesVars, labelVars, cm, bcubed, tau, ce,
                   alignVars, scoreVars>>

NextMetrics ==
    \/ CallContingencyMatrix
    \/ CallBcubed
    \/ CallGoodmanKruskalTau
    \/ CallConditionalEntropy
    \/ CallMutualInformation

SpecMetrics == InitMetrics /\ [][NextMetrics]_vars

----------------------------------------------------------------------------
(* scorelib/score.py: rttms_to_frames *)

RecIds == {1, 2, 3}

\* The turns a recording can have in a file: a single speaker; two speakers
\* who overlap; leading non-speech; two speakers with a gap between them;
\* three speakers, all overlapping at the end.
AlignTurnLists ==
    { <<Turn(1, 0, 1)>>,
      <<Turn(1, 0, 3), Turn(2, 1, 2)>>,
      <<Turn(2, 1, 3)>>,
      <<Turn(1, 0, 1), Turn(2, 2, 4)>>,
      <<Turn(1, 0, 2), Turn(2, 0, 2), Turn(3, 1, 2)>> }

\* The values rttm_to_turns can return: a dict from the recording ids of the
\* file to their (non-empty) lists of turns.
RttmDicts == UNION {[D -> AlignTurnLists] : D \in SUBSET RecIds}

\* max(turn.offset for turn in turns)
MaxOffset(ts) == MaxSeq([i \in DOMAIN ts |-> ts[i].offset])

\* A plausible slip: the longer of the two durations is taken.
WindowMax(ref_turns, sys_turns) ==
    IF MaxOffset(ref_turns) >= MaxOffset(sys_turns)
    THEN MaxOffset(ref_turns) ELSE MaxOffset(sys_turns)

\* dur = min(ref_dur, sys_dur)
Window(ref_turns, sys_turns) == Min(MaxOffset(ref_turns), MaxOffset(sys_turns))

\* A plausible slip: the running maximum is not added.
ShiftLabelsNot(ls, max_label) == ls

\* turns_to_frames(turns, dur, step) + max_label
ShiftLabels(ls, max_label) == [f \in DOMAIN ls |-> ls[f] + max_label]

\* np.concatenate(parts)
RECURSIVE Concatenate(_)
Concatenate(parts) ==
    IF parts = <<>> THEN <<>> ELSE Head(parts) \o Concatenate(Tail(parts))

InitAlign ==
    /\ pc = "rttms_to_frames"
    /\ ref_rec_id_to_turns \in RttmDicts
    /\ sys_rec_id_to_turns \in RttmDicts
    /\ step \in Steps
    /\ rec_ids = <<>> /\ ref_parts = <<>> /\ sys_parts = <<>>
    /\ max_ref_label = 0 /\ max_sys_label = 0
    /\ NoFrames /\ NoLabels /\ NoMetrics /\ NoScore
    /\ NoSingle /\ NoBatch

\* Lines 160-164: the sorted ids common to both files.
SortRecIds ==
    /\ pc = "rttms_to_frames"
    /\ rec_ids' = SortedSeq(DOMAIN ref_rec_id_to_turns
                            \cap DOMAIN sys_rec_id_to_turns)
    /\ ref_parts' = <<>> /\ sys_parts' = <<>>
    /\ max_ref_label' = 0 /\ max_sys_label' = 0
    /\ pc' = "for_rec_id"
    /\ UNCHANGED <<singleVars, batchVars,
                   step, framesVars, labelVars, metricVars, scoreVars,
                   ref_rec_id_to_turns, sys_rec_id_to_turns>>

\* Lines 165-180: one iteration of the loop over rec_ids.
LabelRecording ==
    /\ pc = "for_rec_id"
    /\ Len(ref_parts) < Len(rec_ids)
    /\ LET rec_id == rec_ids[Len(ref_parts) + 1]
           ref_turns == ref_rec_id_to_turns[rec_id]
           sys_turns == sys_rec_id_to_turns[rec_id]
           d == Window(ref_turns, sys_turns)
           ref_labels_ == ShiftLabels(
               FrameLabels(ActivityMatrix(ref_turns, d, step)), max_ref_label)
           sys_labels_ == ShiftLabels(
               FrameLabels(ActivityMatrix(sys_turns, d, step)), max_sys_label)
       IN /\ NFrames(d, step) > 0
          /\ ref_parts' = Append(ref_parts, ref_labels_)
          /\ max_ref_label' = MaxSeq(ref_labels_)
          /\ sys_parts' = Append(sys_parts, sys_labels_)
          /\ max_sys_label' = MaxSeq(sys_labels_)
    /\ UNCHANGED <<singleVars, batchVars,
                   pc, step, framesVars, labelVars, metricVars, scoreVars,
                   ref_rec_id_to_turns, sys_rec_id_to_turns, rec_ids>>

\* Line 177: the recording has no frame (dur < step), and ref_labels_.max()
\* of the empty array raises ValueError.
LabelRecordingRaise ==
    /\ pc = "for_rec_id"
    /\ Len(ref_parts) < Len(rec_ids)
    /\ LET rec_id == rec_ids[Len(ref_parts) + 1]
       IN NFrames(Window(ref_rec_id_to_turns[rec_id],
                         sys_rec_id_to_turns[rec_id]), step) = 0
    /\ pc' = "raised"
    /\ UNCHANGED <<singleVars, batchVars,
                   step, framesVars, labelVars, metricVars, scoreVars, alignVars>>

\* Lines 181-184: the loop is over and the lists are concatenated.
ConcatenateLabels ==
    /\ pc = "for_rec_id"
    /\ Len(ref_parts) = Len(rec_ids)
    /\ ref_parts # <<>>
    /\ ref_labels' = Concatenate(ref_parts)
    /\ sys_labels' = Concatenate(sys_parts)
    /\ pc' = "contingency_matrix"
    /\ UNCHANGED <<singleVars, batchVars,
                   step, framesVars, metricVars, scoreVars, alignVars>>

\* A plausible slip: with no common recording, empty sequences are returned.
ConcatenateEmpty ==
    /\ pc = "for_rec_id"
    /\ Len(ref_parts) = Len(rec_ids)
    /\ ref_parts = <<>>
    /\ ref_labels' = <<>> /\ sys_labels' = <<>>
    /\ pc' = "contingency_matrix"
    /\ UNCHANGED <<singleVars, batchVars,
                   step, framesVars, metricVars, scoreVars, alignVars>>

\* Line 181: no recording is common, and np.concatenate of an empty list
\* raises ValueError.
ConcatenateRaise ==
    /\ pc = "for_rec_id"
    /\ Len(ref_parts) = Len(rec_ids)
    /\ ref_parts = <<>>
    /\ pc' = "raised"
    /\ UNCHANGED <<singleVars, batchVars,
                   step, framesVars, labelVars, metricVars, scoreVars, alignVars>>

NextAlign ==
    \/ SortRecIds
    \/ LabelRecording
    \/ LabelRecordingRaise
    \/ ConcatenateLabels
    \/ ConcatenateRaise

SpecAlign == InitAlign /\ [][NextAlign]_vars

----------------------------------------------------------------------------
(* scorelib/metrics.py: der, and scorelib/score.py: score *)

\* Collar sizes in milliseconds; der's default is collar=0.250.
DefaultCollar == 250
Collars == {100, DefaultCollar}

\* der (lines 274-280): the md-eval command line; '-1' is appended iff
\* ignore_overlaps.
DerCmd(ref_rttm_fn, sys_rttm_fn, collar_, ignore_overlaps_) ==
    [r |-> ref_rttm_fn, s |-> sys_rttm_fn, c |-> collar_,
     one |-> ignore_overlaps_]

\* The overall DER that md-eval prints for a command line: an opaque value
\* determined by the files and the settings on the command line.
MdEvalDER(cmd) == <<"DER", cmd>>

\* The call the docstring of score describes: collar and ignore_overlaps
\* are handed on to der.
ScoreDerCallWithSettings(collar_, ignore_overlaps_) ==
    DerCmd("ref_rttm_fn", "sys_rttm_fn", collar_, ignore_overlaps_)

\* score line 255: der = metrics.der(ref_rttm_fn, sys_rttm_fn).  score hands
\* on the two file names only, so der runs with its own defaults
\* collar=0.250, ignore_overlaps=True (metrics.py line 241).
ScoreDerCall(collar_, ignore_overlaps_) ==
    DerCmd("ref_rttm_fn", "sys_rttm_fn", DefaultCollar, TRUE)

\* The scenario of the spec's section 8, with S1 and S2 as speakers 1 and 2.
ScenarioRef == <<Turn(1, 0, 5), Turn(2, 3, 8)>>
ScenarioSys == <<Turn(1, 0, 4), Turn(2, 4, 8)>>

ScoreRecIds == {1, 2}

ScoreTurnLists ==
    { ScenarioRef, ScenarioSys,
      <<Turn(1, 0, 1)>>,
      <<Turn(1, 0, 2), Turn(2, 1, 2)>> }

\* The files score is given hold at most MaxFileTime time units of turns.
MaxFileTime == 10

RECURSIVE FileTime(_)
FileTime(d) ==
    IF DOMAIN d = {} THEN 0
    ELSE LET r == CHOOSE x \in DOMAIN d : TRUE
         IN MaxOffset(d[r]) + FileTime([x \in DOMAIN d \ {r} |-> d[x]])

ScoreDicts ==
    {d \in UNION {[D -> ScoreTurnLists] : D \in SUBSET ScoreRecIds} :
        FileTime(d) <= MaxFileTime}

InitScore ==
    /\ pc = "der"
    /\ ref_rec_id_to_turns \in ScoreDicts
    /\ sys_rec_id_to_turns \in ScoreDicts
    /\ collar \in Collars
    /\ ignore_overlaps \in BOOLEAN
    /\ step \in Steps
    /\ der_cmd = <<>> /\ md_eval = None /\ der = None /\ result = <<>>
    /\ rec_ids = <<>> /\ ref_parts = <<>> /\ sys_parts = <<>>
    /\ max_ref_label = 0 /\ max_sys_label = 0
    /\ NoFrames /\ NoLabels /\ NoMetrics
    /\ NoSingle /\ NoBatch

\* der: md-eval exits 0 and prints the overall DER line; der returns it.
DerReturns ==
    /\ pc = "der"
    /\ der_cmd' = ScoreDerCall(collar, ignore_overlaps)
    /\ md_eval' = [returncode |-> 0, der_line |-> TRUE]
    /\ der' = MdEvalDER(ScoreDerCall(collar, ignore_overlaps))
    /\ pc' = "rttms_to_frames"
    /\ UNCHANGED <<singleVars, batchVars,
                   step, framesVars, labelVars, metricVars, alignVars,
                   collar, ignore_overlaps, result>>

\* der line 282: md-eval exits non-zero; subprocess.check_output raises
\* CalledProcessError, which neither der nor score catches.
DerExitNonZero ==
    /\ pc = "der"
    /\ der_cmd' = ScoreDerCall(collar, ignore_overlaps)
    /\ \E code \in {1, 2} : \E printed \in BOOLEAN :
          md_eval' = [returncode |-> code, der_line |-> printed]
    /\ pc' = "raised"
    /\ UNCHANGED <<singleVars, batchVars,
                   step, framesVars, labelVars, metricVars, alignVars,
                   collar, ignore_overlaps, der, result>>

\* A plausible slip: an unparsable output is swallowed and DER defaults.
DerNoMatchDefaults ==
    /\ pc = "der"
    /\ der_cmd' = ScoreDerCall(collar, ignore_overlaps)
    /\ md_eval' = [returncode |-> 0, der_line |-> FALSE]
    /\ der' = <<"DER", "default">>
    /\ pc' = "rttms_to_frames"
    /\ UNCHANGED <<singleVars, batchVars,
                   step, framesVars, labelVars, metricVars, alignVars,
                   collar, ignore_overlaps, result>>

\* der line 283: md-eval exits 0 but its output has no overall DER line;
\* DER_REO.search(txt) is None and .group() raises AttributeError.
DerNoMatch ==
    /\ pc = "der"
    /\ der_cmd' = ScoreDerCall(collar, ignore_overlaps)
    /\ md_eval' = [returncode |-> 0, der_line |-> FALSE]
    /\ pc' = "raised"
    /\ UNCHANGED <<singleVars, batchVars,
                   step, framesVars, labelVars, metricVars, alignVars,
                   collar, ignore_overlaps, der, result>>

\* score lines 264-265: the tuple of the nine metrics.
ScoreReturn ==
    /\ pc = "score_return"
    /\ result' = <<der, bcubed[1], bcubed[2], bcubed[3], tau[1], tau[2],
                   ce, mi[1], mi[2]>>
    /\ pc' = "returned"
    /\ UNCHANGED <<singleVars, batchVars,
                   step, framesVars, labelVars, metricVars, alignVars,
                   collar, ignore_overlaps, der_cmd, md_eval, der>>

Next ==
    \/ DerReturns
    \/ DerExitNonZero
    \/ DerNoMatch
    \/ SortRecIds
    \/ LabelRecording
    \/ LabelRecordingRaise
    \/ ConcatenateLabels
    \/ ConcatenateRaise
    \/ CallContingencyMatrix
    \/ CallBcubed
    \/ CallGoodmanKruskalTau
    \/ CallConditionalEntropy
    \/ CallMutualInformation
    \/ ScoreReturn

Spec == InitScore /\ [][Next]_vars

----------------------------------------------------------------------------
(* Properties of rttms_to_frames *)

\* The label of the set of speakers active in frame f of the turns ts.
EncodeActive(ts, st, f) ==
    LET active == SortedSeq(ActiveSpeakers(ts, st, f))
    IN IF active = <<>> THEN NonSpeechLabel(ts)
       ELSE SumSeq([i \in DOMAIN active |-> SpeakerBit(ts, active[i])])

\* The number of positions of the concatenation that precede part k.
RECURSIVE StartOf(_, _)
StartOf(parts, k) ==
    IF k = 1 THEN 0 ELSE StartOf(parts, k - 1) + Len(parts[k - 1])

\* The part that position p of the concatenation comes from.
PartOf(parts, p) ==
    CHOOSE k \in DOMAIN parts :
        StartOf(parts, k) < p /\ p <= StartOf(parts, k) + Len(parts[k])

CommonRecIds == DOMAIN ref_rec_id_to_turns \cap DOMAIN sys_rec_id_to_turns

\* C3: after each recording's labels are offset by the running maximum label
\* (separately for the reference and the system stream), no two frames that
\* come from different recordings carry the same label in the concatenated
\* reference sequence, and likewise in the concatenated system sequence.
C3_RecordingsHaveDisjointLabels ==
    /\ \A k, l \in DOMAIN ref_parts :
          k # l => Range(ref_parts[k]) \cap Range(ref_parts[l]) = {}
    /\ \A k, l \in DOMAIN sys_parts :
          k # l => Range(sys_parts[k]) \cap Range(sys_parts[l]) = {}
    /\ pc = "contingency_matrix" =>
          /\ \A p, q \in DOMAIN ref_labels :
                PartOf(ref_parts, p) # PartOf(ref_parts, q)
                    => ref_labels[p] # ref_labels[q]
          /\ \A p, q \in DOMAIN sys_labels :
                PartOf(sys_parts, p) # PartOf(sys_parts, q)
                    => sys_labels[p] # sys_labels[q]

\* Three recordings concatenated, the later ones with shifted labels.
C3_Witness ==
    /\ pc = "contingency_matrix"
    /\ Len(ref_parts) = 3
    /\ \A k \in DOMAIN ref_parts : Cardinality(Range(ref_parts[k])) >= 2
    /\ max_ref_label > max_sys_label
    /\ \E f \in DOMAIN ref_parts[3] : ref_parts[3][f] > MaxSeq(ref_parts[2]) + 1

\* C4: rttms_to_frames uses exactly the recording ids present in both
\* inputs, in sorted order, and an id present in only one input causes no
\* error; for each used recording both label sequences cover the window
\* [0, min(max reference offset, max system offset)) and have the length
\* floor(window/step), so the concatenated sequences have equal length and
\* position p in both is the same frame of the same recording.
C4_CommonRecordingsAligned ==
    /\ pc # "rttms_to_frames" =>
          StrictlyIncreasing(rec_ids) /\ Range(rec_ids) = CommonRecIds
    /\ pc = "raised" =>
          \/ CommonRecIds = {}
          \/ \E r \in CommonRecIds :
                Min(MaxOffset(ref_rec_id_to_turns[r]),
                    MaxOffset(sys_rec_id_to_turns[r])) < step
    /\ Len(ref_parts) = Len(sys_parts) /\ Len(ref_parts) <= Len(rec_ids)
    /\ \A k \in DOMAIN ref_parts :
          LET ref_turns == ref_rec_id_to_turns[rec_ids[k]]
              sys_turns == sys_rec_id_to_turns[rec_ids[k]]
              window == Min(MaxOffset(ref_turns), MaxOffset(sys_turns))
              ref_shift == IF k = 1 THEN 0 ELSE MaxSeq(ref_parts[k - 1])
              sys_shift == IF k = 1 THEN 0 ELSE MaxSeq(sys_parts[k - 1])
          IN /\ Len(ref_parts[k]) = window \div step
             /\ Len(sys_parts[k]) = window \div step
             /\ \A f \in 1 .. (window \div step) :
                   /\ step * (f - 1) < window
                   /\ ref_parts[k][f] = ref_shift + EncodeActive(ref_turns, step, f)
                   /\ sys_parts[k][f] = sys_shift + EncodeActive(sys_turns, step, f)
    /\ pc = "contingency_matrix" =>
          /\ Len(ref_parts) = Len(rec_ids)
          /\ Len(ref_labels) = Len(sys_labels)
          /\ Len(ref_labels) = StartOf(ref_parts, Len(ref_parts) + 1)
          /\ \A p \in DOMAIN ref_labels :
                LET k == PartOf(ref_parts, p)
                IN /\ PartOf(sys_parts, p) = k
                   /\ ref_labels[p] = ref_parts[k][p - StartOf(ref_parts, k)]
                   /\ sys_labels[p] = sys_parts[k][p - StartOf(sys_parts, k)]

\* Two common recordings labelled, with an id that only one file has and a
\* recording whose reference and system turns end at different times.
C4_Witness ==
    /\ pc = "contingency_matrix"
    /\ Len(rec_ids) = 2
    /\ DOMAIN ref_rec_id_to_turns # DOMAIN sys_rec_id_to_turns
    /\ \E k \in DOMAIN rec_ids :
          MaxOffset(ref_rec_id_to_turns[rec_ids[k]])
              > MaxOffset(sys_rec_id_to_turns[rec_ids[k]])

----------------------------------------------------------------------------
(* Properties of the metric functions *)

Count(seq, v) == Cardinality({f \in DOMAIN seq : seq[f] = v})

One == Whole(1)
Zero == Whole(0)

InUnitInterval(x) == RLe(Zero, x) /\ RLe(x, One)

\* C2: for a pair of equal-length (non-empty) label sequences, cell (i, j) of
\* the contingency matrix is the number of frames whose reference label is
\* the i-th sorted distinct reference label and whose system label is the
\* j-th sorted distinct system label; so the cells sum to the sequence
\* length, each row (column) sums to the frame count of its reference
\* (system) class, and no row or column is all zero.
C2_ContingencyCounts ==
    pc \notin {"contingency_matrix"} /\ cm # <<>> =>
        LET m == cm.cmatrix
            rc == cm.ref_classes
            sc == cm.sys_classes
        IN /\ StrictlyIncreasing(rc) /\ Range(rc) = Range(ref_labels)
           /\ StrictlyIncreasing(sc) /\ Range(sc) = Range(sys_labels)
           /\ DOMAIN m = DOMAIN rc
           /\ \A i \in DOMAIN rc : DOMAIN m[i] = DOMAIN sc
           /\ \A i \in DOMAIN rc : \A j \in DOMAIN sc :
                 m[i][j] = Cardinality({f \in DOMAIN ref_labels :
                                          ref_labels[f] = rc[i]
                                          /\ sys_labels[f] = sc[j]})
           /\ Total(m) = Len(ref_labels)
           /\ \A i \in DOMAIN rc :
                 /\ SumSeq(m[i]) = Count(ref_labels, rc[i])
                 /\ SumSeq(m[i]) > 0
           /\ \A j \in DOMAIN sc :
                 /\ ColSums(m)[j] = Count(sys_labels, sc[j])
                 /\ ColSums(m)[j] > 0

\* A matrix with a cell that counts several frames beside an empty cell.
C2_Witness ==
    /\ pc = "score_return"
    /\ \E i \in DOMAIN cm.ref_classes : \E j, k \in DOMAIN cm.sys_classes :
          cm.cmatrix[i][j] >= 2 /\ cm.cmatrix[i][k] = 0

\* C5 as stated: whenever the reference labels equal the system labels (any
\* non-empty sequence, a single class included), B-cubed F1 = 1,
\* tau_ref_sys = tau_sys_ref = 1, NMI = 1 and H(ref|sys) = 0.
C5_IdentityAllOnes ==
    pc = "score_return" /\ ref_labels = sys_labels =>
        /\ bcubed[3] = One
        /\ tau = <<One, One>>
        /\ mi[2] = One
        /\ ce = Zero

\* C5 as amended: whenever the reference labels equal the system labels,
\* B-cubed F1 = 1, tau_ref_sys = tau_sys_ref = 1 and H(ref|sys) = 0; NMI = 1
\* when the sequence has at least two distinct labels, and NMI = 0 when it
\* has a single class.
C5_IdentityCase ==
    pc = "score_return" /\ ref_labels = sys_labels =>
        /\ bcubed[3] = One
        /\ tau = <<One, One>>
        /\ ce = Zero
        /\ (Cardinality(Range(ref_labels)) >= 2 => mi[2] = One)
        /\ (Cardinality(Range(ref_labels)) = 1 => mi[2] = Zero)

\* Identical labellings with several classes, scored.
C5_Witness ==
    /\ pc = "score_return"
    /\ ref_labels = sys_labels
    /\ Cardinality(Range(ref_labels)) >= 2
    /\ mi[2] = One

C7_DegenerateTauIsZero ==
    pc = "score_return" =>
        /\ (Len(cm.sys_classes) = 1 => tau[1] = Zero)
        /\ (Len(cm.ref_classes) = 1 => tau[2] = Zero)

----------------------------------------------------------------------------
(* Properties of score *)

ScenarioInput ==
    /\ ref_rec_id_to_turns = (1 :> ScenarioRef)
    /\ sys_rec_id_to_turns = (1 :> ScenarioSys)
    /\ step = 1

\* C8: in the scenario with reference turns (S1,0,5), (S2,3,8) and system
\* turns (S1,0,4), (S2,4,8) over 8 frames of step 1, the reference labels
\* are the class of S1 alone in frames 0-2, the combined class of S1 and S2
\* in the overlap frames 3 and 4 and the class of S2 alone in frames 5-7;
\* the system labels are S1 in frames 0-3 and S2 in frames 4-7; and the
\* B-cubed F1 that score returns is strictly below 1.
C8_ScenarioOverlap ==
    (ScenarioInput /\ pc = "returned") =>
        /\ ref_labels = <<1, 1, 1, 3, 3, 2, 2, 2>>
        /\ sys_labels = <<1, 1, 1, 1, 2, 2, 2, 2>>
        /\ \A f \in 1..8 :
              /\ ref_labels[f] = EncodeActive(ScenarioRef, 1, f)
              /\ sys_labels[f] = EncodeActive(ScenarioSys, 1, f)
        /\ result[4] = bcubed[3]
        /\ RLt(result[4], One)

C8_Witness ==
    /\ ScenarioInput
    /\ pc = "returned"
    /\ Len(ref_labels) = 8
    /\ RLt(Zero, result[4])

\* C9: the DER that score returns is the one md-eval prints when it is run
\* with the collar and the ignore-overlaps setting given to score.
C9_DerUsesCallerSettings ==
    (pc = "returned") =>
        /\ der_cmd = ScoreDerCallWithSettings(collar, ignore_overlaps)
        /\ result[1] = MdEvalDER(
                ScoreDerCallWithSettings(collar, ignore_overlaps))

ScorerFailed ==
    /\ md_eval # None
    /\ (md_eval.returncode # 0 \/ ~md_eval.der_line)

\* C10: when md-eval exits non-zero or prints no overall DER line, score
\* raises: no DER value is ever set and no result tuple is ever returned.
\* A returned tuple has all nine metrics and its DER is the one md-eval
\* printed on a successful run.
C10_ScorerFailurePropagates ==
    /\ ScorerFailed => (pc = "raised" /\ der = None /\ result = <<>>)
    /\ (result # <<>>) =>
          /\ Len(result) = 9
          /\ md_eval = [returncode |-> 0, der_line |-> TRUE]
          /\ result[1] = MdEvalDER(der_cmd)

C10_Witness ==
    /\ ScorerFailed
    /\ md_eval.returncode = 0
    /\ pc = "raised"
    /\ DOMAIN ref_rec_id_to_turns \cap DOMAIN sys_rec_id_to_turns # {}

----------------------------------------------------------------------------
(* Properties of rttms_to_frames: errors *)

\* C11: when the reference and the system file have no recording id in
\* common, rttms_to_frames ends by raising and no label sequences exist;
\* whenever it returns label sequences, the files share a recording id and
\* both sequences are non-empty.
C11_NoCommonRecordingRaises ==
    /\ (CommonRecIds = {} /\ pc \notin {"rttms_to_frames", "for_rec_id"}) =>
          (pc = "raised" /\ ref_labels = <<>> /\ sys_labels = <<>>)
    /\ (pc = "contingency_matrix") =>
          (CommonRecIds # {} /\ ref_labels # <<>> /\ sys_labels # <<>>)

C11_Witness ==
    /\ CommonRecIds = {}
    /\ DOMAIN ref_rec_id_to_turns # {}
    /\ DOMAIN sys_rec_id_to_turns # {}
    /\ pc = "raised"

----------------------------------------------------------------------------
(* confusion_matrix.py: rttms_to_frames, the single-recording path.  The    *)
(* labels are returned as class-name strings (as_string=True), one name per *)
(* integer label, and are kept here as the integer labels they name.        *)

InitSingle ==
    /\ pc = "confusion_matrix.rttms_to_frames"
    /\ ref_rec_id_to_turns \in RttmDicts
    /\ sys_rec_id_to_turns \in RttmDicts
    /\ step \in Steps
    /\ rec_ids = <<>> /\ ref_parts = <<>> /\ sys_parts = <<>>
    /\ max_ref_label = 0 /\ max_sys_label = 0
    /\ NoFrames /\ NoLabels /\ NoMetrics /\ NoScore /\ NoSingle /\ NoBatch

\* Lines 60-66: the sorted ids common to both files.
SingleSortRecIds ==
    /\ pc = "confusion_matrix.rttms_to_frames"
    /\ rec_ids' = SortedSeq(DOMAIN ref_rec_id_to_turns
                            \cap DOMAIN sys_rec_id_to_turns)
    /\ pc' = "if_len_rec_ids"
    /\ UNCHANGED <<singleVars, batchVars, step, framesVars, labelVars,
                   metricVars, scoreVars, ref_rec_id_to_turns,
                   sys_rec_id_to_turns, ref_parts, sys_parts,
                   max_ref_label, max_sys_label>>

\* Lines 67-68: if len(rec_ids) != 1: raise ValueError.
SingleRaise ==
    /\ pc = "if_len_rec_ids"
    /\ Len(rec_ids) # 1
    /\ pc' = "raised"
    /\ UNCHANGED <<singleVars, batchVars, step, framesVars, labelVars,
                   metricVars, scoreVars, alignVars>>

\* Lines 71-81: the turns are list(d.values())[0] of each dict, whose key is
\* whichever the dict lists first (hash order, or the order of the lines of
\* the file): any key of the dict.
SingleLabel ==
    /\ pc = "if_len_rec_ids"
    /\ Len(rec_ids) = 1
    /\ \E rk \in DOMAIN ref_rec_id_to_turns :
       \E sk \in DOMAIN sys_rec_id_to_turns :
          LET ref_turns == ref_rec_id_to_turns[rk]
              sys_turns == sys_rec_id_to_turns[sk]
              d == Window(ref_turns, sys_turns)
          IN /\ ref_key' = rk
             /\ sys_key' = sk
             /\ ref_labels' = FrameLabels(ActivityMatrix(ref_turns, d, step))
             /\ sys_labels' = FrameLabels(ActivityMatrix(sys_turns, d, step))
    /\ pc' = "returned"
    /\ UNCHANGED <<batchVars, step, framesVars, metricVars, scoreVars,
                   alignVars>>

NextSingle ==
    \/ SingleSortRecIds
    \/ SingleRaise
    \/ SingleLabel

SpecSingle == InitSingle /\ [][NextSingle]_vars

----------------------------------------------------------------------------
(* Properties of confusion_matrix.rttms_to_frames *)

\* C12: in the single-recording path an error is raised whenever the
\* reference file or the system file holds more than one recording id, and
\* whenever labels are returned the reference turns and the system turns
\* that were labelled are those of the one recording id the files share.
C12_SingleRecordingOnly ==
    /\ ( /\ pc \in {"returned", "raised"}
         /\ \/ Cardinality(DOMAIN ref_rec_id_to_turns) > 1
            \/ Cardinality(DOMAIN sys_rec_id_to_turns) > 1 )
       => pc = "raised"
    /\ (pc = "returned") =>
          /\ Len(rec_ids) = 1
          /\ ref_key = rec_ids[1]
          /\ sys_key = rec_ids[1]

----------------------------------------------------------------------------
(* Properties of turns_to_frames: malformed input and frame ranges *)

\* C13: a turn with offset <= onset is rejected with an error, so every turn
\* of a call that returns labels has offset > onset; and a call with no
\* turns and no duration, whose duration cannot be determined, raises.
C13_MalformedTurnsRejected ==
    /\ (pc = "returned") =>
          \A i \in DOMAIN turns : turns[i].offset > turns[i].onset
    /\ (pc # "turns_to_frames" /\ turns = <<>> /\ dur = None) =>
          pc = "raised"

----------------------------------------------------------------------------
(* score_batch.py: score_recordings and write_dataframe.  score is taken as *)
(* a function of its arguments and of the two files, as score.py defines    *)
(* it; its metric values are kept symbolic.                                 *)

Fids == {1, 2}
MaxFids == 3
MaxJobs == 2

\* score's default step=0.010 (score.py line 188), as one time unit.
DefaultStep == 1

\* Lines 79-80: os.path.join(dir, fid + '.rttm').
RttmFn(dir, fid) == <<dir, fid>>

\* os.path.exists of an RTTM path.
Exists(fn) ==
    IF fn[1] = "ref_rttm_dir" THEN fn[2] \in ref_rttm_dir
    ELSE fn[2] \in sys_rttm_dir

\* The value of a frame-level metric of score: it depends on the two files
\* and on the frame step.
FrameMetric(name, ref_rttm_fn, sys_rttm_fn, st) ==
    <<name, ref_rttm_fn, sys_rttm_fn, st>>

\* The tuple score(ref_rttm_fn, sys_rttm_fn, collar, ignore_overlaps, step)
\* returns (score.py lines 255-265): the DER of der's default command line
\* (line 255) and the frame-level metrics at the given step.
ScoreTuple(ref_rttm_fn, sys_rttm_fn, collar_, ignore_overlaps_, st) ==
    <<MdEvalDER(DerCmd(ref_rttm_fn, sys_rttm_fn, DefaultCollar, TRUE)),
      FrameMetric("bcubed_precision", ref_rttm_fn, sys_rttm_fn, st),
      FrameMetric("bcubed_recall", ref_rttm_fn, sys_rttm_fn, st),
      FrameMetric("bcubed_f1", ref_rttm_fn, sys_rttm_fn, st),
      FrameMetric("tau_ref_sys", ref_rttm_fn, sys_rttm_fn, st),
      FrameMetric("tau_sys_ref", ref_rttm_fn, sys_rttm_fn, st),
      FrameMetric("ce", ref_rttm_fn, sys_rttm_fn, st),
      FrameMetric("mi", ref_rttm_fn, sys_rttm_fn, st),
      FrameMetric("nmi", ref_rttm_fn, sys_rttm_fn, st)>>

\* score raises for the pair of a file id: a file cannot be opened, or the
\* content of the pair makes der or rttms_to_frames raise.
ScoreRaises(fid) ==
    \/ fid \notin ref_rttm_dir
    \/ fid \notin sys_rttm_dir
    \/ fid \in score_raises

Pending == [status |-> "pending", row |-> <<>>]

\* _score_recordings (lines 77-92).  Both tests of lines 82 and 85 are on
\* ref_rttm_fn; line 91 calls score(ref_rttm_fn, sys_rttm_fn) with the two
\* file names only, so score runs with its defaults.
ScoreRecordingsWorker(fid, collar_, ignore_overlaps_, st) ==
    LET ref_rttm_fn == RttmFn("ref_rttm_dir", fid)
        sys_rttm_fn == RttmFn("sys_rttm_dir", fid)
        fail == (~Exists(ref_rttm_fn)) \/ (~Exists(ref_rttm_fn))
    IN IF fail THEN [status |-> "None", row |-> <<>>]
       ELSE IF ScoreRaises(fid) THEN [status |-> "raised", row |-> <<>>]
       ELSE [status |-> "row",
             row |-> <<fid>> \o ScoreTuple(ref_rttm_fn, sys_rttm_fn,
                                           DefaultCollar, TRUE, DefaultStep)]

\* args_gen (lines 129-132): the arguments of the worker for position i.
WorkerResult(i) ==
    ScoreRecordingsWorker(fids[i], collar, ignore_overlaps, step)

\* A plausible slip: the results come back in the order the workers ended.
PoolMapUnordered(res, order) == [k \in DOMAIN order |-> res[order[k]]]

\* Line 137: pool.map returns the results in the order of its arguments.
PoolMap(res, order) == res

\* Line 138: rows = [row for row in rows if row].
RECURSIVE DropNone(_)
DropNone(res) ==
    IF res = <<>> THEN <<>>
    ELSE IF Head(res).status = "row"
         THEN <<Head(res).row>> \o DropNone(Tail(res))
         ELSE DropNone(Tail(res))

\* write_dataframe lines 170-179.
ColNames ==
    <<"DER", "B3Precision", "B3Recall", "B3F1", "TauRefSys", "TauSysRef",
      "CE", "MI", "NMI">>

\* parse_additional_columns of the --additional_columns string.
AdditionalColumns == { <<>>, << <<"Corpus", "AMI">> >> }

InitBatch ==
    /\ pc = "score_recordings"
    /\ fids \in SeqsUpTo(Fids, MaxFids)
    /\ ref_rttm_dir \in SUBSET Fids
    /\ sys_rttm_dir \in SUBSET Fids
    /\ score_raises \in SUBSET Fids
    /\ collar \in Collars
    /\ ignore_overlaps \in BOOLEAN
    /\ step \in Steps
    /\ n_jobs \in 1..MaxJobs
    /\ additional_columns \in AdditionalColumns
    /\ running = {}
    /\ results = [i \in DOMAIN fids |-> Pending]
    /\ completed = <<>>
    /\ batch_rows = <<>>
    /\ dataframe = <<>>
    /\ der_cmd = <<>> /\ md_eval = None /\ der = None /\ result = <<>>
    /\ NoFrames /\ NoLabels /\ NoMetrics /\ NoAlign /\ NoSingle

\* Line 134, n_jobs == 1: the list comprehension scores the next file id;
\* an exception of _score_recordings leaves score_recordings.
ScoreNext ==
    /\ pc = "score_recordings"
    /\ n_jobs = 1
    /\ Len(completed) < Len(fids)
    /\ LET i == Len(completed) + 1
       IN /\ results' = [results EXCEPT ![i] = WorkerResult(i)]
          /\ completed' = Append(completed, i)
          /\ pc' = IF WorkerResult(i).status = "raised" THEN "raised"
                   ELSE pc
    /\ UNCHANGED <<singleVars, step, framesVars, labelVars, metricVars,
                   alignVars, scoreVars, fids, ref_rttm_dir, sys_rttm_dir,
                   score_raises, n_jobs, running, batch_rows,
                   additional_columns, dataframe>>

\* Line 137: a free worker of the pool takes a file id that is waiting.
PoolStart ==
    /\ pc = "score_recordings"
    /\ n_jobs # 1
    /\ Cardinality(running) < n_jobs
    /\ \E i \in DOMAIN fids :
          /\ results[i] = Pending
          /\ i \notin running
          /\ running' = running \cup {i}
    /\ UNCHANGED <<singleVars, step, framesVars, labelVars, metricVars,
                   alignVars, scoreVars, pc, fids, ref_rttm_dir,
                   sys_rttm_dir, score_raises, n_jobs, results, completed,
                   batch_rows, additional_columns, dataframe>>

\* Line 137: a worker ends _score_recordings for its file id.
PoolFinish ==
    /\ pc = "score_recordings"
    /\ n_jobs # 1
    /\ \E i \in running :
          /\ results' = [results EXCEPT ![i] = WorkerResult(i)]
          /\ completed' = Append(completed, i)
          /\ running' = running \ {i}
    /\ UNCHANGED <<singleVars, step, framesVars, labelVars, metricVars,
                   alignVars, scoreVars, pc, fids, ref_rttm_dir,
                   sys_rttm_dir, score_raises, n_jobs, batch_rows,
                   additional_columns, dataframe>>

\* Line 137: pool.map re-raises the exception of a worker.
PoolMapRaise ==
    /\ pc = "score_recordings"
    /\ n_jobs # 1
    /\ Len(completed) = Len(fids)
    /\ \E i \in DOMAIN results : results[i].status = "raised"
    /\ pc' = "raised"
    /\ UNCHANGED <<singleVars, batchVars, step, framesVars, labelVars,
                   metricVars, alignVars, scoreVars>>

\* Lines 134-139: every file id is done and none raised; the rows that are
\* not None are returned.
ReturnRows ==
    /\ pc = "score_recordings"
    /\ Len(completed) = Len(fids)
    /\ \A i \in DOMAIN results : results[i].status # "raised"
    /\ batch_rows' = DropNone(IF n_jobs = 1 THEN results
                              ELSE PoolMap(results, completed))
    /\ pc' = "write_dataframe"
    /\ UNCHANGED <<singleVars, step, framesVars, labelVars, metricVars,
                   alignVars, scoreVars, fids, ref_rttm_dir, sys_rttm_dir,
                   score_raises, n_jobs, running, results, completed,
                   additional_columns, dataframe>>

\* write_dataframe (lines 162-188): the header line, then one line per row,
\* each row extended by the values of the additional columns.
WriteDataframe ==
    /\ pc = "write_dataframe"
    /\ LET names == [k \in DOMAIN additional_columns |->
                        additional_columns[k][1]]
           vals == [k \in DOMAIN additional_columns |->
                        additional_columns[k][2]]
       IN dataframe' = <<ColNames \o names>>
                       \o [k \in DOMAIN batch_rows |-> batch_rows[k] \o vals]
    /\ pc' = "written"
    /\ UNCHANGED <<singleVars, step, framesVars, labelVars, metricVars,
                   alignVars, scoreVars, fids, ref_rttm_dir, sys_rttm_dir,
                   score_raises, n_jobs, running, results, completed,
                   batch_rows, additional_columns>>

NextBatch ==
    \/ ScoreNext
    \/ PoolStart
    \/ PoolFinish
    \/ PoolMapRaise
    \/ ReturnRows
    \/ WriteDataframe

SpecBatch == InitBatch /\ [][NextBatch]_vars

----------------------------------------------------------------------------
(* Properties of score_recordings and write_dataframe *)

Returned == pc \in {"write_dataframe", "written"}

RowFids == [k \in DOMAIN batch_rows |-> batch_rows[k][1]]

\* C14: a file id that fails (reference RTTM missing, system RTTM missing,
\* or score raising for its pair) never aborts the batch: score_recordings
\* does not raise, and it returns one row for each file id that scores
\* successfully, in the order of fids, and no row for the others.
C14_BatchSkipsFailures ==
    /\ pc # "raised"
    /\ Returned => RowFids = SelectSeq(fids, LAMBDA f : ~ScoreRaises(f))

\* The row of a file id whose metrics are computed with given settings: DER
\* from md-eval run with that collar and ignore-overlaps setting, the others
\* from frames of that step.
RowWithSettings(fid, collar_, ignore_overlaps_, st) ==
    LET ref_rttm_fn == RttmFn("ref_rttm_dir", fid)
        sys_rttm_fn == RttmFn("sys_rttm_dir", fid)
    IN <<fid,
         MdEvalDER(DerCmd(ref_rttm_fn, sys_rttm_fn, collar_, ignore_overlaps_)),
         FrameMetric("bcubed_precision", ref_rttm_fn, sys_rttm_fn, st),
         FrameMetric("bcubed_recall", ref_rttm_fn, sys_rttm_fn, st),
         FrameMetric("bcubed_f1", ref_rttm_fn, sys_rttm_fn, st),
         FrameMetric("tau_ref_sys", ref_rttm_fn, sys_rttm_fn, st),
         FrameMetric("tau_sys_ref", ref_rttm_fn, sys_rttm_fn, st),
         FrameMetric("ce", ref_rttm_fn, sys_rttm_fn, st),
         FrameMetric("mi", ref_rttm_fn, sys_rttm_fn, st),
         FrameMetric("nmi", ref_rttm_fn, sys_rttm_fn, st)>>

\* C15: every row that score_recordings returns holds the metrics computed
\* with the collar, ignore_overlaps and step given to score_recordings.
C15_BatchUsesCallerSettings ==
    Returned =>
        \A k \in DOMAIN batch_rows :
            batch_rows[k] = RowWithSettings(batch_rows[k][1], collar,
                                            ignore_overlaps, step)

\* C16: the header of the written dataframe is FID, the nine metric names,
\* then the additional column names; every data line has as many fields as
\* the header, its first field being the file id.
C16_DataframeHasFidColumn ==
    (pc = "written") =>
        LET header == dataframe[1]
            names == [k \in DOMAIN additional_columns |->
                         additional_columns[k][1]]
        IN /\ header = <<"FID">> \o ColNames \o names
           /\ \A k \in 2..Len(dataframe) :
                 /\ Len(dataframe[k]) = Len(header)
                 /\ dataframe[k][1] \in Fids

SequentialResults == [i \in DOMAIN fids |-> WorkerResult(i)]

\* C19: whatever the number of workers and their interleaving,
\* score_recordings gives what the sequential loop gives: it raises exactly
\* when scoring some file id raises, and otherwise returns the rows of the
\* sequential run in the order of fids; the result of each position depends
\* on its own arguments only.
C19_PoolSameAsSequential ==
    /\ Returned =>
          /\ \A i \in DOMAIN fids : WorkerResult(i).status # "raised"
          /\ batch_rows = DropNone(SequentialResults)
    /\ (pc = "raised") =>
          \E i \in DOMAIN fids : WorkerResult(i).status = "raised"
    /\ \A i \in DOMAIN results :
          results[i] # Pending => results[i] = WorkerResult(i)

C19_Witness ==
    /\ n_jobs > 1
    /\ Returned
    /\ Len(batch_rows) >= 2
    /\ batch_rows[1][1] # batch_rows[2][1]
    /\ \E j, k \in DOMAIN completed : j < k /\ completed[j] > completed[k]

----------------------------------------------------------------------------
(* Properties of turns_to_frames: frame index ranges *)

\* The frame boundary times are step*k for k = 0 .. n - 1.
RECURSIVE BoundariesUpTo(_, _, _)
BoundariesUpTo(n, st, v) ==
    IF n = 0 THEN 0
    ELSE BoundariesUpTo(n - 1, st, v) + (IF st * (n - 1) <= v THEN 1 ELSE 0)

RECURSIVE BoundariesBefore(_, _, _)
BoundariesBefore(n, st, v) ==
    IF n = 0 THEN 0
    ELSE BoundariesBefore(n - 1, st, v) + (IF st * (n - 1) < v THEN 1 ELSE 0)

\* The column of X that belongs to the speaker of turn j.
SpeakerColumn(ts, j) ==
    IndexOf(SortedSeq(SpeakerSet(ts)), ts[j].speaker_id) - 1

\* C17 as stated: each turn marks its speaker on the frames of index
\* begin_index <= i < end_index, begin_index being the number of frame
\* boundaries <= onset and end_index the number of frame boundaries
\* <= offset, and a speaker is marked on no other frame.
C17_RangeByBoundariesUpTo ==
    (pc = "returned") =>
        \A f \in DOMAIN X :
            /\ \A j \in DOMAIN turns :
                  ( /\ BoundariesUpTo(Len(X), step, turns[j].onset) <= f - 1
                    /\ f - 1 < BoundariesUpTo(Len(X), step, turns[j].offset) )
                  => SpeakerColumn(turns, j) \in X[f]
            /\ \A c \in X[f] \ {Cardinality(SpeakerSet(turns))} :
                  \E j \in DOMAIN turns :
                     /\ SpeakerColumn(turns, j) = c
                     /\ BoundariesUpTo(Len(X), step, turns[j].onset) <= f - 1
                     /\ f - 1 < BoundariesUpTo(Len(X), step, turns[j].offset)

\* C17, amended: each turn marks its speaker on the frames of index
\* begin_index <= i < end_index, begin_index being the number of frame
\* boundaries strictly before onset and end_index the number of frame
\* boundaries strictly before offset, and a speaker is marked on no other
\* frame.
C17_RangeByBoundariesBefore ==
    (pc = "returned") =>
        \A f \in DOMAIN X :
            /\ \A j \in DOMAIN turns :
                  ( /\ BoundariesBefore(Len(X), step, turns[j].onset) <= f - 1
                    /\ f - 1 < BoundariesBefore(Len(X), step, turns[j].offset) )
                  => SpeakerColumn(turns, j) \in X[f]
            /\ \A c \in X[f] \ {Cardinality(SpeakerSet(turns))} :
                  \E j \in DOMAIN turns :
                     /\ SpeakerColumn(turns, j) = c
                     /\ BoundariesBefore(Len(X), step, turns[j].onset) <= f - 1
                     /\ f - 1 < BoundariesBefore(Len(X), step, turns[j].offset)

\* A turn that starts on a frame boundary inside the output and ends on a
\* later one: its first frame is the one that starts at its onset.
C17_Witness ==
    /\ pc = "returned"
    /\ \E j \in DOMAIN turns :
          /\ turns[j].onset % step = 0
          /\ turns[j].offset % step = 0
          /\ turns[j].onset < turns[j].offset
          /\ turns[j].offset < step * Len(X)
          /\ SpeakerColumn(turns, j) \in X[(turns[j].onset \div step) + 1]
          /\ SpeakerColumn(turns, j) \notin X[(turns[j].offset \div step) + 1]

\* C18: in a call that has a duration or a turn, turns_to_frames does not
\* raise and returns exactly floor(duration/step) labels; a frame is marked
\* for a speaker only by a turn with onset < offset that covers the frame's
\* start time, so a turn reaching beyond the duration marks frames below
\* floor(duration/step) only and a turn with offset = onset marks none.
C18_ClippedAndEmptyTurns ==
    /\ (pc = "raised") => (turns = <<>> /\ dur = None)
    /\ (pc = "returned") =>
          /\ Len(labels) = Duration(turns, dur) \div step
          /\ DOMAIN X = 1..(Duration(turns, dur) \div step)
          /\ \A f \in DOMAIN X :
                \A c \in X[f] \ {Cardinality(SpeakerSet(turns))} :
                   \E j \in DOMAIN turns :
                      /\ SpeakerColumn(turns, j) = c
                      /\ turns[j].onset < turns[j].offset
                      /\ turns[j].onset <= step * (f - 1)
                      /\ step * (f - 1) < turns[j].offset
          /\ (\A j \in DOMAIN turns : turns[j].onset = turns[j].offset) =>
                \A f \in DOMAIN X : X[f] = {Cardinality(SpeakerSet(turns))}

\* A call with a turn that reaches beyond the duration and marks the last
\* frame, and a turn of zero duration inside the output whose speaker is
\* marked nowhere.
C18_Witness ==
    /\ pc = "returned"
    /\ dur # None
    /\ Len(labels) >= 2
    /\ \E j, k \in DOMAIN turns :
          /\ turns[j].offset > Duration(turns, dur)
          /\ SpeakerColumn(turns, j) \in X[Len(X)]
          /\ turns[k].onset = turns[k].offset
          /\ turns[k].onset < Duration(turns, dur)
          /\ \A f \in DOMAIN X : SpeakerColumn(turns, k) \notin X[f]

====
